---- MODULE Spec2Model ----
\* The render engine of polyfloyd/shady (renderer.Shader): environment
\* hand-off, swap, tick, ring of render targets and the Animate loop, with the
\* producer of environments, the consumer of frames and the canceller as the
\* concurrent parties.
EXTENDS Integers, Sequences, FiniteSets, TLC

\* ---------------------------------------------------------------- bounds
\* Number of environments the producer builds and publishes.
MaxPublish == 2
\* Number of frames the consumer takes from the egress channel.
MaxReads == 1
\* Capacity of the egress channel given to Animate (10 in cmd/shady, 0 in the
\* tests of the repository).
StreamCap == 1
\* The interval given to Animate.
Interval == 2
\* Number of calls of Shader.Image in single-image mode.
MaxImages == 3

\* ------------------------------------------------------ program constants
\* len(pboRenderer.targets)
NumTargets == 3
\* make(chan Environment, 1)
NewEnvsCap == 1

\* ------------------------------------------------------------ environments
\* An Environment value is [id, kind]; the nil interface value is NilEnv.
\* Root environments get the ids 1..MaxPublish in the order they are built;
\* the sub-environment called name of environment id gets SubId(id, name).
NilEnv == [id |-> 0, kind |-> "nil"]

SubNames == {"A", "B"}

SubIndex(name) == IF name = "A" THEN 1 ELSE 2

SubId(id, name) == 10 * id + SubIndex(name)

RootIds == 1..MaxPublish

EnvIds == RootIds \cup {SubId(i, n) : i \in RootIds, n \in SubNames}

\* The behaviours an Environment implementation can show to the engine.
\*   plain       one mapping, everything succeeds, no sub-environments
\*   buffers     sub-environments A and B, everything succeeds
\*   badSetup    two mappings, the second one fails to open
\*   badSubEnvs  SubEnvironments returns an error
\*   badChild    sub-environments A and B, the program of B does not link
\*   badSources  Sources returns an error
\*   badLink     compiling or linking the sources fails
Kinds == {"plain", "buffers", "badSetup", "badSubEnvs", "badChild",
          "badSources", "badLink"}

\* Number of mappings ShaderToy.Setup walks through.
NumMappings(kind) == IF kind = "badSetup" THEN 2 ELSE 1

\* Index of the mapping whose resource cannot be built, 0 when all can.
FailingMapping(kind) == IF kind = "badSetup" THEN 2 ELSE 0

SubEnvironmentsErr(kind) == kind = "badSubEnvs"

SubEnvironmentNames(kind) ==
  IF kind \in {"buffers", "badChild"} THEN SubNames ELSE {}

SubEnvironmentKind(kind, name) ==
  IF kind = "badChild" /\ name = "B" THEN "badLink" ELSE "plain"

SourcesErr(kind) == kind = "badSources"

LinkErr(kind) == kind = "badLink"


\* ------------------------------------------------- environment objects
\* What is known of one Environment object: the resources it holds
\* (ShaderToy.resources), the kind it was built as and, as history, the
\* calls it has received, in order.
NoState == [Time |-> -1, FramesProcessed |-> -1]

NewEnvObject ==
  [resources |-> 0, opened |-> 0, released |-> 0, setups |-> 0, closes |-> 0,
   preRenders |-> 0, setupState |-> NoState, firstPreRender |-> NoState,
   kind |-> "none", calls |-> <<>>]

\* ShaderToy.Setup: builds the resources of the mappings in order and keeps
\* each one built; returns at the first mapping that fails.
ShaderToySetupOpens(kind) ==
  IF FailingMapping(kind) = 0 THEN NumMappings(kind)
  ELSE FailingMapping(kind) - 1

ShaderToySetup(e, kind, state) ==
  [e EXCEPT !.resources = @ + ShaderToySetupOpens(kind),
            !.opened = @ + ShaderToySetupOpens(kind),
            !.setups = @ + 1,
            !.calls = Append(@, "Setup"),
            !.setupState = [Time |-> state.Time,
                            FramesProcessed |-> state.FramesProcessed]]

ShaderToySetupErr(kind) == FailingMapping(kind) # 0

\* ShaderToy.Close: closes every resource held.
ShaderToyClose(e) ==
  [e EXCEPT !.released = @ + e.resources, !.closes = @ + 1,
            !.calls = Append(@, "Close")]

\* ShaderToy.Sources, as far as the engine is concerned: it is called.
ShaderToySources(e) == [e EXCEPT !.calls = Append(@, "Sources")]

\* ShaderToy.PreRender, as far as the engine is concerned: it receives state.
ShaderToyPreRender(e, state) ==
  [e EXCEPT !.preRenders = @ + 1,
            !.calls = Append(@, "PreRender"),
            !.firstPreRender =
               IF e.preRenders = 0
               THEN [Time |-> state.Time,
                     FramesProcessed |-> state.FramesProcessed]
               ELSE @]

\* ------------------------------------------------------- ring of targets
\* The content of a render target is the frame last drawn into it: the number
\* of the root tick that drew it, the frame counter of the drawing engine and
\* the environment that was active.
Blank == [tick |-> 0, frame |-> 0 - 1, env |-> 0]

\* The nil handle (a tick that failed returns nil).
NilHandle == 0 - 1

NewPboRenderer ==
  [curTargetIndex |-> 0, targets |-> [i \in 0..(NumTargets - 1) |-> Blank]]

NumBuffers(pr) == Cardinality(DOMAIN pr.targets)

\* Draw that leaves the cursor where it is.
DrawSameTarget(pr, content) ==
  LET idx == pr.curTargetIndex
  IN [pr |-> [pr EXCEPT !.curTargetIndex = idx, !.targets[idx] = content],
      handle |-> idx]

\* pboRenderer.Draw: advance the cursor, draw into that target and start the
\* transfer; the handle is the index of the target.
Draw(pr, content) ==
  LET idx == (pr.curTargetIndex + 1) % Cardinality(DOMAIN pr.targets)
  IN [pr |-> [pr EXCEPT !.curTargetIndex = idx, !.targets[idx] = content],
      handle |-> idx]

\* pboRenderer.Image: the pixels of the target the handle names.
Image(pr, handle) == pr.targets[handle]

\* pboRenderer.Texture: a texture holding the pixels of that target.
Texture(pr, handle) == pr.targets[handle]

\* ---------------------------------------------------------------- engine
EmptyMap == [n \in {} |-> 0]

NewShader ==
  [env |-> NilEnv, newEnvs |-> <<>>, subTargets |-> EmptyMap, program |-> 0,
   time |-> 0, frame |-> 0, prevFrameHandle |-> NilHandle,
   renderer |-> NewPboRenderer]

\* Shader.SetEnvironment, once the channel takes the value.
SetEnvironment(s, env) == [s EXCEPT !.newEnvs = Append(@, env)]

\* The RenderState reloadEnvironment gives to Setup.
SetupRenderState(s) == [Time |-> s.time, FramesProcessed |-> s.frame]

\* reloadEnvironment. s is an engine that need not wait: it has an
\* environment or one is queued. swapOrder is the order in which the map of
\* sub-environments is walked. Each step gives the engine, the environment
\* objects and whether an error is returned.
RECURSIVE ReloadEnvironment(_, _, _)
RECURSIVE BuildSubTargets(_, _, _, _)

\* Closing the old environment that also restarts the counters.
CloseOldAndReset(s, es) ==
  IF s.env # NilEnv
  THEN [sh |-> [s EXCEPT !.env = NilEnv, !.time = 0, !.frame = 0],
        envs |-> [es EXCEPT ![s.env.id] = ShaderToyClose(@)]]
  ELSE [sh |-> s, envs |-> es]

\* "Close the old environment if there is one."
CloseOld(s, es) ==
  IF s.env # NilEnv
  THEN [sh |-> [s EXCEPT !.env = NilEnv],
        envs |-> [es EXCEPT ![s.env.id] = ShaderToyClose(@)]]
  ELSE [sh |-> s, envs |-> es]

\* sources, err := env.Sources(); sh.program, err = linkProgram(sources);
\* sh.env = env. b is what the loop over the sub-environments gave.
LinkAndActivate(s, env, b) ==
  IF b.err
  THEN [sh |-> [s EXCEPT !.subTargets = b.subTargets],
        envs |-> b.envs, err |-> TRUE]
  ELSE IF SourcesErr(env.kind)
  THEN [sh |-> [s EXCEPT !.subTargets = b.subTargets],
        envs |-> [b.envs EXCEPT ![env.id] = ShaderToySources(@)],
        err |-> TRUE]
  ELSE IF LinkErr(env.kind)
  THEN [sh |-> [s EXCEPT !.subTargets = b.subTargets, !.program = 0],
        envs |-> [b.envs EXCEPT ![env.id] = ShaderToySources(@)],
        err |-> TRUE]
  ELSE [sh |-> [s EXCEPT !.subTargets = b.subTargets, !.program = env.id,
                         !.env = env],
        envs |-> [b.envs EXCEPT ![env.id] = ShaderToySources(@)],
        err |-> FALSE]

\* From env.SubEnvironments() on; es holds the environment after its Setup.
AfterSetup(s, env, order, es) ==
  IF ShaderToySetupErr(env.kind) THEN [sh |-> s, envs |-> es, err |-> TRUE]
  ELSE IF SubEnvironmentsErr(env.kind)
  THEN [sh |-> s, envs |-> es, err |-> TRUE]
  ELSE LinkAndActivate(s, env, BuildSubTargets(env, order, EmptyMap, es))

\* A swap that leaves out env.Setup.
SetupNewWithoutSetup(c, env, order) ==
  IF env = NilEnv THEN [sh |-> c.sh, envs |-> c.envs, err |-> FALSE]
  ELSE AfterSetup(c.sh, env, order, c.envs)

\* From "if env == nil" on; c is what CloseOld gave.
SetupNew(c, env, order) ==
  IF env = NilEnv THEN [sh |-> c.sh, envs |-> c.envs, err |-> FALSE]
  ELSE AfterSetup(c.sh, env, order,
                  [c.envs EXCEPT ![env.id] =
                     ShaderToySetup(@, env.kind, SetupRenderState(c.sh))])

Swap(s, env, order, es) == SetupNew(CloseOld(s, es), env, order)

\* One round of the loop over subEnvs: r is what the child engine's
\* reloadEnvironment gave.
RegisterSubTarget(env, name, rest, subTargets, r) ==
  IF r.err THEN [subTargets |-> subTargets, envs |-> r.envs, err |-> TRUE]
  ELSE BuildSubTargets(env, rest, (name :> r.sh) @@ subTargets, r.envs)

SubEnvironment(env, name) ==
  [id |-> SubId(env.id, name), kind |-> SubEnvironmentKind(env.kind, name)]

\* The loop over subEnvs: NewShader, SetEnvironment, reloadEnvironment.
BuildSubTargets(env, order, subTargets, es) ==
  IF order = <<>>
  THEN [subTargets |-> subTargets, envs |-> es, err |-> FALSE]
  ELSE RegisterSubTarget(
         env, Head(order), Tail(order), subTargets,
         ReloadEnvironment(
           SetEnvironment(NewShader, SubEnvironment(env, Head(order))),
           <<>>, es))

\* The orders in which Go may walk a map with the keys A and B.
Orders == {<<"A", "B">>, <<"B", "A">>}

Restrict(order, names) ==
  LET In(n) == n \in names IN SelectSeq(order, In)

\* The receive from newEnvs, when something is queued, and the swap.
ReloadEnvironment(s, swapOrder, es) ==
  IF s.newEnvs # <<>>
  THEN Swap([s EXCEPT !.newEnvs = Tail(@)], Head(s.newEnvs),
            Restrict(swapOrder, SubEnvironmentNames(Head(s.newEnvs).kind)),
            es)
  ELSE [sh |-> s, envs |-> es, err |-> FALSE]

\* A previous-frame accessor that takes the texture of the target after the
\* one of the previous frame.
PreviousFrameTexIDNextTarget(s) ==
  IF s.prevFrameHandle # NilHandle
  THEN Texture(s.renderer, (s.prevFrameHandle + 1) % NumTargets)
  ELSE Blank

\* The previous-frame accessor of nextHandle: a texture of the target of the
\* previous frame, or no texture (Blank) when there is no previous frame.
PreviousFrameTexID(s) ==
  IF s.prevFrameHandle # NilHandle
  THEN Texture(s.renderer, s.prevFrameHandle)
  ELSE Blank

NoRenderState ==
  [Time |-> 0 - 1, Interval |-> 0, FramesProcessed |-> 0 - 1,
   PreviousFrameTexID |-> Blank, SubBuffers |-> EmptyMap]

\* nextHandle after its reloadEnvironment, for the engine called name (root,
\* or the name of the sub-environment): tick the child engines in the order
\* the map is walked and take a texture of the frame each returns, PreRender,
\* advance the counters, draw. Gives the engine, the handle, the environment
\* objects, the RenderState and the calls made, in order.
\* A child engine's queue is written only by BuildSubTargets, which empties
\* it again, so the reloadEnvironment of a child's nextHandle finds nothing.
RECURSIVE Render(_, _, _, _, _, _)
RECURSIVE RenderSubTargets(_, _, _, _, _)

RenderState(s, interval, subTextures) ==
  [Time |-> s.time, Interval |-> interval, FramesProcessed |-> s.frame,
   PreviousFrameTexID |-> PreviousFrameTexID(s), SubBuffers |-> subTextures]

\* From sh.env.PreRender on; d is what the ring's Draw gave.
PreRenderAndDraw(s, name, state, r, d) ==
  [sh |-> [s EXCEPT !.subTargets = r.subTargets,
                    !.time = @ + state.Interval,
                    !.frame = @ + 1,
                    !.renderer = d.pr,
                    !.prevFrameHandle = d.handle],
   handle |-> d.handle,
   envs |-> [r.envs EXCEPT ![s.env.id] = ShaderToyPreRender(@, state)],
   state |-> state,
   log |-> r.log \o <<<<"PreRender", name>>, <<"Draw", name>>>>,
   panic |-> FALSE]

\* r is what the loop over the child engines gave.
RenderAfterSubTargets(s, name, interval, tk, r) ==
  PreRenderAndDraw(
    s, name, RenderState(s, interval, r.subTextures), r,
    Draw(s.renderer, [tick |-> tk, frame |-> s.frame, env |-> s.env.id]))

\* A round of the loop that takes the texture from the child's renderer as
\* it was before the child's tick.
TakeSubTextureBeforeTick(acc, name, rest, interval, tk, r) ==
  RenderSubTargets(
    [acc EXCEPT !.subTargets[name] = r.sh,
                !.subTextures =
                  (name :> Texture(acc.subTargets[name].renderer, r.handle))
                    @@ @,
                !.log = @ \o r.log \o <<<<"Texture", name>>>>],
    rest, interval, tk, r.envs)

\* One round of the loop over sh.subTargets: r is what the child's nextHandle
\* gave.
TakeSubTexture(acc, name, rest, interval, tk, r) ==
  RenderSubTargets(
    [acc EXCEPT !.subTargets[name] = r.sh,
                !.subTextures = (name :> Texture(r.sh.renderer, r.handle)) @@ @,
                !.log = @ \o r.log \o <<<<"Texture", name>>>>],
    rest, interval, tk, r.envs)

RenderSubTargets(acc, order, interval, tk, es) ==
  IF order = <<>> THEN [acc EXCEPT !.envs = es]
  ELSE TakeSubTexture(
         acc, Head(order), Tail(order), interval, tk,
         Render(acc.subTargets[Head(order)], Head(order), <<>>, interval, tk,
                es))

Render(s, name, order, interval, tk, es) ==
  RenderAfterSubTargets(
    s, name, interval, tk,
    RenderSubTargets(
      [subTargets |-> s.subTargets, subTextures |-> EmptyMap, log |-> <<>>,
       envs |-> es],
      order, interval, tk, es))

\* The call of PreRender on the nil environment that a reload leaves behind
\* when it received nil: a panic, after the child engines have been ticked.
PanicOnNilEnvironment(s, r) ==
  [sh |-> [s EXCEPT !.subTargets = r.subTargets], handle |-> NilHandle,
   envs |-> r.envs, state |-> NoRenderState, log |-> r.log, panic |-> TRUE]

\* nextHandle from the check of reloadEnvironment's error on.
AfterReload(rl, tickOrder, interval, tk) ==
  IF rl.err
  THEN [sh |-> rl.sh, handle |-> NilHandle, envs |-> rl.envs,
        state |-> NoRenderState, log |-> <<>>, panic |-> FALSE]
  ELSE IF rl.sh.env = NilEnv
  THEN PanicOnNilEnvironment(
         rl.sh,
         RenderSubTargets(
           [subTargets |-> rl.sh.subTargets, subTextures |-> EmptyMap,
            log |-> <<>>, envs |-> rl.envs],
           Restrict(tickOrder, DOMAIN rl.sh.subTargets), interval, tk,
           rl.envs))
  ELSE Render(rl.sh, "root", Restrict(tickOrder, DOMAIN rl.sh.subTargets),
              interval, tk, rl.envs)

\* The record of the calls notes when the reloadEnvironment of nextHandle
\* took something from the queue.
LogSwap(taken, r) ==
  IF taken THEN [r EXCEPT !.log = <<<<"Swap", "root">>>> \o @] ELSE r

\* A nextHandle that does not look at the queue.
NextHandleWithoutReload(s, swapOrder, tickOrder, interval, tk, es) ==
  AfterReload([sh |-> s, envs |-> es, err |-> FALSE], tickOrder, interval, tk)

\* Shader.nextHandle of the root engine.
NextHandle(s, swapOrder, tickOrder, interval, tk, es) ==
  LogSwap(s.newEnvs # <<>>,
          AfterReload(ReloadEnvironment(s, swapOrder, es), tickOrder,
                      interval, tk))

\* The texture views of one nextHandle. A view is the previous frame of an
\* engine, or the frame of a child engine that its parent takes; asks holds
\* the engines whose Environment calls PreviousFrameTexID in its PreRender.
EngineNames == {"root"} \cup SubNames

\* The shaders of a tick all use the previous frame, or none of them does.
AskSets == {{}, EngineNames}

TextureView(kind, name) == [op |-> "Texture", kind |-> kind, name |-> name]

ReleaseView(kind, name) == [op |-> "Release", kind |-> kind, name |-> name]

\* getPrevTexID, called by the Environment: the first call takes a view of
\* the previous frame when there is one.
GetPrevTexID(s, name, asks) ==
  IF name \in asks /\ s.prevFrameHandle # NilHandle
  THEN <<TextureView("prev", name)>>
  ELSE <<>>

\* defer freePrevTexID(): the function value is taken when the defer
\* statement is executed, where freePrevTexID still is func() {}; what
\* getPrevTexID assigns to the variable later is not called.
DeferredFreePrevTexID(s, name, asks) == <<>>

\* The deferred loop over freeSubTextures.
FreeSubTextures(order) ==
  [i \in 1..Len(order) |-> ReleaseView("sub", order[i])]

RECURSIVE ViewsOfNextHandle(_, _, _, _)
RECURSIVE ViewsOfSubTargets(_, _, _)

\* The loop over sh.subTargets: each child's nextHandle, then
\* s.renderer.Texture(h).
ViewsOfSubTargets(s, order, asks) ==
  IF order = <<>> THEN <<>>
  ELSE ViewsOfNextHandle(s.subTargets[Head(order)], Head(order), <<>>, asks)
         \o <<TextureView("sub", Head(order))>>
         \o ViewsOfSubTargets(s, Tail(order), asks)

\* nextHandle of the engine s after its reloadEnvironment; the deferred
\* calls run last, in the reverse order of their defer statements.
ViewsOfNextHandle(s, name, order, asks) ==
  ViewsOfSubTargets(s, order, asks)
    \o (IF s.env # NilEnv THEN GetPrevTexID(s, name, asks) ELSE <<>>)
    \o FreeSubTextures(order)
    \o DeferredFreePrevTexID(s, name, asks)

\* nextHandle of the root engine; rl is what its reloadEnvironment gave.
ViewsOfTick(rl, tickOrder, asks) ==
  IF rl.err THEN <<>>
  ELSE ViewsOfNextHandle(rl.sh, "root",
                         Restrict(tickOrder, DOMAIN rl.sh.subTargets), asks)

\* Shader.Close of the engine called name: close the environment, then every
\* child engine in the order the map is walked, then the ring. c holds the
\* environment objects and the calls made so far, in order.
RECURSIVE ShaderClose(_, _, _, _)
RECURSIVE CloseSubTargets(_, _, _)

\* if sh.env != nil { envErr = sh.env.Close() }
CloseEnvironment(s, name, c) ==
  IF s.env # NilEnv
  THEN [envs |-> [c.envs EXCEPT ![s.env.id] = ShaderToyClose(@)],
        log |-> Append(c.log, <<"Close", name>>)]
  ELSE c

\* sh.renderer.Close(): pboRenderer.Close frees the targets of the ring.
CloseRenderer(name, c) == [c EXCEPT !.log = Append(@, <<"Free", name>>)]

CloseSubTargets(s, order, c) ==
  IF order = <<>> THEN c
  ELSE CloseSubTargets(
         s, Tail(order),
         ShaderClose(s.subTargets[Head(order)], Head(order), <<>>, c))

\* A Close that leaves the child engines alone.
ShaderCloseWithoutChildren(s, name, order, c) ==
  CloseRenderer(name, CloseEnvironment(s, name, c))

ShaderClose(s, name, order, c) ==
  CloseRenderer(name, CloseSubTargets(s, order, CloseEnvironment(s, name, c)))

\* ----------------------------------------------------------------- state
VARIABLES
  sh,         \* the root engine (a Shader), with its child engines
  envs,       \* the Environment objects, by id
  pc,         \* where Animate is: reload, tick, send, returned, panicked, closed
  buffer,     \* Animate's channel of handles
  img,        \* the image Animate is sending
  stream,     \* the egress channel
  streamClosed,  \* whether the egress channel has been closed
  cancelled,  \* whether the context given to Animate has been cancelled
  producer,   \* the environment the producer is publishing, or Idle
  built,      \* number of SetEnvironment calls the producer has started
  reads,      \* number of frames the consumer has taken
  ticks,      \* number of nextHandle calls Animate has made
  sent,       \* the images sent on the egress channel, in order
  overtaken,  \* environments that were queued when a later publish began
  lastState,  \* the RenderState of the root's last PreRender
  tickLog,    \* the calls of the nextHandle or Close just made, in order
  views,      \* the texture views that nextHandle took and released, in order
  vtStream,   \* videoTexture.stream: what the decoder has queued
  vtClosed,   \* whether the decoder has closed videoTexture.stream
  vtFrame,    \* videoTexture.currentVideoFrame
  vtTime,     \* the Time of the RenderState of the next PreRender
  vtPc,       \* where videoTexture.PreRender is: idle, receive
  includeGraph,  \* the include directives of every file, in order
  includeArgs,   \* the filenames Includes is called with
  includeResult, \* what Includes returned, once it has been called
  limitPc,    \* where limitNumFrames is: range, send, done
  limitFrame, \* the frame counter of limitNumFrames
  limitImg,   \* the image limitNumFrames has in hand
  outClosed,  \* whether limitNumFrames has closed its channel
  encoded,    \* the images the encoder has received, in order
  encoderPc,  \* where the encoder goroutine is: range, returned
  stMappings, \* ShaderToy.Mappings: the mappings the caller gave
  srcMappings,    \* the mappings extractMappings found in the sources
  setupMappings,  \* the mappings Setup makes resources of, once computed
  geom,       \* the string parseGeometry is called with
  ledcatGeometry,  \* the value of the environment variable LEDCAT_GEOMETRY
  geomResult, \* what parseGeometry returned, once it has been called
  watchPc,    \* where watchEnvironment is: none, build, failed, published, stopped
  watched,    \* the files added to the watcher that is open
  watchEvents,    \* whether the watcher has an event to deliver
  fileState,  \* the source files as they are on disk: good, badInclude, badEnvironment
  mappingsOk, \* whether the mappings of the command line can be parsed
  watchBuilds,    \* number of calls of newFn
  fileChanges,    \* number of changes made to the source files
  periphSource,   \* what the peripheral reads: none, file, stream
  periphInput,    \* number of lines the reader can read now
  periphWritten,  \* number of lines the device has written
  prClosed,   \* whether periphMat4.closed has been closed
  loopClosed, \* whether periphMat4.loopClosed has been closed
  readerPc,   \* where the reader goroutine is: none, select, read, done
  closePc,    \* where periphMat4.Close is: idle, waiting, returned
  readAfterClose  \* number of lines processed after closed was closed

engineVars ==
  <<sh, envs, pc, buffer, img, stream, streamClosed, cancelled, producer,
    built, reads, ticks, sent, overtaken, lastState, tickLog, views>>

videoVars == <<vtStream, vtClosed, vtFrame, vtTime, vtPc>>

includeVars == <<includeGraph, includeArgs, includeResult>>

pipeVars == <<limitPc, limitFrame, limitImg, outClosed, encoded, encoderPc>>

mappingVars == <<stMappings, srcMappings, setupMappings>>

geometryVars == <<geom, ledcatGeometry, geomResult>>

periphVars ==
  <<periphSource, periphInput, periphWritten, prClosed, loopClosed, readerPc,
    closePc, readAfterClose>>

watchVars ==
  <<watchPc, watched, watchEvents, fileState, mappingsOk, watchBuilds,
    fileChanges>>

\* What the engine's own steps leave alone.
otherVars ==
  <<videoVars, includeVars, pipeVars, mappingVars, geometryVars, watchVars, periphVars>>

\* What the steps of a video texture leave alone.
notVideoVars ==
  <<engineVars, includeVars, pipeVars, mappingVars, geometryVars, watchVars, periphVars>>

\* What a call of Includes leaves alone.
notIncludeVars ==
  <<engineVars, videoVars, pipeVars, mappingVars, geometryVars, watchVars, periphVars>>

\* What the mappings of ShaderToy.Setup leave alone.
notMappingVars ==
  <<engineVars, videoVars, includeVars, pipeVars, geometryVars, watchVars, periphVars>>

\* What parseGeometry leaves alone.
notGeometryVars ==
  <<engineVars, videoVars, includeVars, pipeVars, mappingVars, watchVars,
    periphVars>>

\* What neither the engine nor watchEnvironment touches.
notWatchVars ==
  <<videoVars, includeVars, pipeVars, mappingVars, geometryVars, periphVars>>

\* What the peripheral and its reader leave alone.
notPeriphVars ==
  <<engineVars, videoVars, includeVars, pipeVars, mappingVars, geometryVars,
    watchVars>>

\* What neither the engine nor the frame limit touches.
besideVars == <<videoVars, includeVars, mappingVars, geometryVars, watchVars, periphVars>>

vars == <<engineVars, otherVars>>

Idle == [id |-> 0, kind |-> "idle"]

\* The caller of the engine, about to do what start names.
CallerInit(start) ==
  /\ pc = start
  /\ buffer = <<>>
  /\ img = Blank
  /\ stream = <<>>
  /\ streamClosed = FALSE
  /\ cancelled = FALSE
  /\ producer = Idle
  /\ reads = 0
  /\ ticks = 0
  /\ sent = <<>>
  /\ overtaken = {}
  /\ lastState = NoRenderState
  /\ tickLog = <<>>
  /\ views = <<>>

\* The state after NewShader.
EngineInit(start) ==
  /\ sh = NewShader
  /\ envs = [id \in EnvIds |-> NewEnvObject]
  /\ built = 0
  /\ CallerInit(start)

\* decodeVideoFile: out := make(chan interface{}, 4)
VideoStreamCap == 4

\* The interval between two frames of the video, and the last Time for which
\* PreRender is called.
VideoFrameInterval == 3
MaxVideoTime == 12

\* newVideoTexture at Time 0: the decoder has been started and has queued
\* nothing yet; currentVideoFrame = int(currentTime/interval) - 1.
NewVideoTexture ==
  /\ vtStream = <<>>
  /\ vtClosed = FALSE
  /\ vtFrame = 0 - 1
  /\ vtTime = 0
  /\ vtPc = "idle"

\* Includes has not been called.
NotRun == [sources |-> <<>>, diverges |-> FALSE, returned |-> FALSE]

NoIncludes ==
  /\ includeGraph = <<>>
  /\ includeArgs = <<>>
  /\ includeResult = NotRun

\* main has started limitNumFrames and the encoder goroutine.
PipelineStarted ==
  /\ limitPc = "range"
  /\ limitFrame = 0
  /\ limitImg = Blank
  /\ outClosed = FALSE
  /\ encoded = <<>>
  /\ encoderPc = "range"

\* Setup has not computed its mappings.
NotComputed == <<[Name |-> "", Value |-> 0]>>

NoMappings ==
  /\ stMappings = <<>>
  /\ srcMappings = <<>>
  /\ setupMappings = NotComputed

\* parseGeometry has not been called.
NotParsed == [w |-> <<>>, h |-> <<>>, err |-> "none"]

NoGeometry ==
  /\ geom = <<>>
  /\ ledcatGeometry = <<>>
  /\ geomResult = NotParsed

\* main runs without -w: watchEnvironment is not started.
NoWatcher ==
  /\ watchPc = "none"
  /\ watched = {}
  /\ watchEvents = FALSE
  /\ fileState = "good"
  /\ mappingsOk = TRUE
  /\ watchBuilds = 0
  /\ fileChanges = 0

\* No peripheral is mapped.
NoPeripheral ==
  /\ periphSource = "none"
  /\ periphInput = 0
  /\ periphWritten = 0
  /\ prClosed = FALSE
  /\ loopClosed = FALSE
  /\ readerPc = "none"
  /\ closePc = "idle"
  /\ readAfterClose = 0

\* What stands beside the mappings of a ShaderToy.
BesideMappingsInit ==
  /\ NewVideoTexture
  /\ NoIncludes
  /\ PipelineStarted
  /\ NoGeometry
  /\ NoWatcher
  /\ NoPeripheral

\* What stands beside a call of Includes.
BesideIncludesInit ==
  /\ NewVideoTexture
  /\ PipelineStarted
  /\ NoMappings
  /\ NoGeometry
  /\ NoWatcher
  /\ NoPeripheral

\* What stands beside a call of parseGeometry.
BesideGeometryInit ==
  /\ NewVideoTexture
  /\ NoIncludes
  /\ PipelineStarted
  /\ NoMappings
  /\ NoWatcher
  /\ NoPeripheral

\* What stands beside a peripheral.
BesidePeripheralInit ==
  /\ NewVideoTexture
  /\ NoIncludes
  /\ PipelineStarted
  /\ NoMappings
  /\ NoGeometry
  /\ NoWatcher

\* What stands beside watchEnvironment.
BesideWatchInit ==
  /\ NewVideoTexture
  /\ NoIncludes
  /\ PipelineStarted
  /\ NoMappings
  /\ NoGeometry
  /\ NoPeripheral

OtherInit == NoMappings /\ BesideMappingsInit

InitAt(start) == EngineInit(start) /\ OtherInit

\* The caller runs Animate.
Init == InitAt("reload")


\* ------------------------------------------------------------- Animate
\* The reloadEnvironment(ctx) at the top of Animate's loop. Without an
\* environment it waits for one or for the cancellation; with one it takes a
\* queued environment if there is one and goes on otherwise. An error other
\* than the cancellation is logged and the loop starts over.
\* reloadEnvironment goes on without waiting: the engine has an environment
\* (select with default) or a published one is queued.
ReloadReady(s) == s.env # NilEnv \/ s.newEnvs # <<>>

\* The places where Animate can go on by itself: its own reloadEnvironment
\* (which also wakes on cancellation), the one of nextHandle (which does not)
\* and the select around the send.
AnimateCanStep ==
  \/ pc = "reload" /\ (ReloadReady(sh) \/ cancelled)
  \/ pc = "tick" /\ ReloadReady(sh)
  \/ pc = "send" /\ (Len(stream) < StreamCap \/ cancelled)

AnimateCanceled ==
  /\ pc = "reload"
  /\ sh.env = NilEnv
  /\ cancelled
  /\ pc' = "returned"
  /\ UNCHANGED <<sh, envs, buffer, img, stream, streamClosed, otherVars, cancelled, producer,
                 built, reads, ticks, sent, overtaken, lastState, tickLog, views>>

ReloadDone(r) ==
  /\ sh' = r.sh
  /\ envs' = r.envs
  /\ pc' = IF r.err THEN "reload" ELSE "tick"

AnimateReload ==
  /\ pc = "reload"
  /\ ReloadReady(sh)
  /\ \E swapOrder \in Orders : ReloadDone(ReloadEnvironment(sh, swapOrder, envs))
  /\ tickLog' = <<>>
  /\ views' = <<>>
  /\ UNCHANGED <<buffer, img, stream, streamClosed, otherVars, cancelled, producer, built,
                 reads, ticks, sent, overtaken, lastState>>

\* handle := sh.nextHandle(interval); buffer <- handle; and, once the buffer
\* is full, img := sh.renderer.Image(<-buffer). nextHandle waits in its own
\* reloadEnvironment, which has no cancellation, while the engine has no
\* environment and none is queued. Image panics on the nil handle. A panic
\* inside nextHandle leaves the buffer as it was.
BufferAndResolve(r, b, full) ==
  /\ sh' = r.sh
  /\ envs' = r.envs
  /\ tickLog' = r.log
  /\ lastState' = IF r.handle # NilHandle THEN r.state ELSE lastState
  /\ buffer' = IF r.panic THEN buffer ELSE IF full THEN Tail(b) ELSE b
  /\ img' = IF full /\ ~r.panic /\ Head(b) # NilHandle
            THEN Image(r.sh.renderer, Head(b))
            ELSE img
  /\ pc' = IF r.panic THEN "panicked"
           ELSE IF ~full THEN "reload"
           ELSE IF Head(b) = NilHandle THEN "panicked"
           ELSE "send"

\* An Animate that resolves a frame only when one more than the ring holds
\* is queued.
TickDoneLate(r) ==
  BufferAndResolve(r, Append(buffer, r.handle),
                   Len(buffer) + 1 = NumBuffers(r.sh.renderer) + 1)

TickDone(r) ==
  BufferAndResolve(r, Append(buffer, r.handle),
                   Len(buffer) + 1 = NumBuffers(r.sh.renderer))

AnimateTick ==
  /\ pc = "tick"
  /\ ReloadReady(sh)
  /\ \E swapOrder \in Orders, tickOrder \in Orders, asks \in AskSets :
       /\ TickDone(NextHandle(sh, swapOrder, tickOrder, Interval, ticks + 1,
                               envs))
       /\ views' = ViewsOfTick(ReloadEnvironment(sh, swapOrder, envs),
                               tickOrder, asks)
  /\ ticks' = ticks + 1
  /\ UNCHANGED <<stream, streamClosed, otherVars, cancelled, producer, built, reads, sent, overtaken>>

\* A send that drops the frame when the egress channel is full.
AnimateSendOrDrop ==
  /\ pc = "send"
  /\ stream' = IF Len(stream) < StreamCap THEN Append(stream, img) ELSE stream
  /\ UNCHANGED <<streamClosed, otherVars>>
  /\ sent' = IF Len(stream) < StreamCap THEN Append(sent, img) ELSE sent
  /\ pc' = "reload"
  /\ UNCHANGED <<sh, envs, buffer, img, cancelled, producer, built,
                 reads, ticks, overtaken, lastState>>
  /\ tickLog' = <<>>
  /\ views' = <<>>

\* select: case stream <- img
AnimateSend ==
  /\ pc = "send"
  /\ Len(stream) < StreamCap
  /\ stream' = Append(stream, img)
  /\ UNCHANGED <<streamClosed, otherVars>>
  /\ sent' = Append(sent, img)
  /\ pc' = "reload"
  /\ UNCHANGED <<sh, envs, buffer, img, cancelled, producer, built,
                 reads, ticks, overtaken, lastState>>
  /\ tickLog' = <<>>
  /\ views' = <<>>

\* select: case <-ctx.Done()
AnimateDone ==
  /\ pc = "send"
  /\ cancelled
  /\ pc' = "returned"
  /\ UNCHANGED <<sh, envs, buffer, img, stream, streamClosed, otherVars, cancelled, producer,
                 built, reads, ticks, sent, overtaken, lastState>>
  /\ tickLog' = <<>>
  /\ views' = <<>>

\* The Close that follows Animate (defer engine.Close()).
CloseDone(c) ==
  /\ envs' = c.envs
  /\ tickLog' = c.log
  /\ views' = <<>>

Close ==
  /\ pc = "returned"
  /\ \E order \in Orders :
       CloseDone(ShaderClose(sh, "root",
                             Restrict(order, DOMAIN sh.subTargets),
                             [envs |-> envs, log |-> <<>>]))
  /\ pc' = "closed"
  /\ UNCHANGED <<sh, buffer, img, stream, streamClosed, otherVars, cancelled, producer,
                 built, reads, ticks, sent, overtaken, lastState>>

\* ----------------------------------------------------- the other parties
\* The environments queued in newEnvs.
Queued == {sh.newEnvs[i].id : i \in DOMAIN sh.newEnvs} \ {NilEnv.id}

\* The producer has built an environment (or takes nil, to unset the
\* environment) and calls SetEnvironment with it.
Publish(kind) ==
  /\ producer = Idle
  /\ built < MaxPublish
  /\ built' = built + 1
  /\ producer' = IF kind = "nil" THEN NilEnv
                 ELSE [id |-> built + 1, kind |-> kind]
  /\ envs' = IF kind = "nil" THEN envs
             ELSE [envs EXCEPT ![built + 1].kind = kind]
  /\ overtaken' = overtaken \cup Queued
  /\ UNCHANGED <<sh, pc, buffer, img, stream, streamClosed, otherVars, cancelled,
                 reads, ticks, sent, lastState, tickLog, views>>

\* The producer calls SetEnvironment with an environment it has published
\* before. (One without sub-environments: ShaderToy builds new
\* sub-environment objects in every SubEnvironments call.)
Republish(id) ==
  /\ producer = Idle
  /\ built < MaxPublish
  /\ envs[id].kind # "none"
  /\ SubEnvironmentNames(envs[id].kind) = {}
  /\ built' = built + 1
  /\ producer' = [id |-> id, kind |-> envs[id].kind]
  /\ overtaken' = overtaken \cup (Queued \ {id})
  /\ UNCHANGED <<sh, envs, pc, buffer, img, stream, streamClosed, otherVars, cancelled,
                 reads, ticks, sent, lastState, tickLog, views>>

\* sh.newEnvs <- env: the send of SetEnvironment completes.
SetEnvironmentSend ==
  /\ producer # Idle
  /\ Len(sh.newEnvs) < NewEnvsCap
  /\ sh' = SetEnvironment(sh, producer)
  /\ producer' = Idle
  /\ UNCHANGED <<envs, pc, buffer, img, stream, streamClosed, otherVars, cancelled, built,
                 reads, ticks, sent, overtaken, lastState, tickLog, views>>

\* The consumer takes a frame from the egress channel.
ConsumerRead ==
  /\ stream # <<>>
  /\ reads < MaxReads
  /\ stream' = Tail(stream)
  /\ UNCHANGED <<streamClosed, otherVars>>
  /\ reads' = reads + 1
  /\ UNCHANGED <<sh, envs, pc, buffer, img, cancelled, producer,
                 built, ticks, sent, overtaken, lastState, tickLog, views>>

\* The context given to Animate is cancelled.
Cancel ==
  /\ ~cancelled
  /\ cancelled' = TRUE
  /\ UNCHANGED <<sh, envs, pc, buffer, img, stream, streamClosed, otherVars, producer, built,
                 reads, ticks, sent, overtaken, lastState, tickLog, views>>

PublishAny == \E kind \in Kinds \cup {"nil"} : Publish(kind)

RepublishAny == \E id \in RootIds : Republish(id)

AnimateStep ==
  AnimateCanceled \/ AnimateReload \/ AnimateTick \/ AnimateSend \/ AnimateDone

Next ==
  \/ AnimateCanceled
  \/ AnimateReload
  \/ AnimateTick
  \/ AnimateSend
  \/ AnimateDone
  \/ Close
  \/ PublishAny
  \/ RepublishAny
  \/ SetEnvironmentSend
  \/ ConsumerRead
  \/ Cancel

Spec == Init /\ [][Next]_vars


\* ------------------------------------------------------ single-image mode
\* The caller asks for single images with Shader.Image instead of running
\* Animate; pc is "image" while it does. SetEnvironment is called alongside.
\* A nil handle (the reload inside nextHandle failed) or a nil environment
\* makes the call panic.

\* A resolution that takes the target drawn before the one of the handle.
ImageResolvePrevious(r) ==
  /\ sh' = r.sh
  /\ envs' = r.envs
  /\ tickLog' = r.log
  /\ lastState' = IF r.handle # NilHandle THEN r.state ELSE lastState
  /\ img' = IF r.handle # NilHandle
            THEN Image(r.sh.renderer,
                       (r.handle + NumTargets - 1) % NumTargets)
            ELSE img
  /\ pc' = IF r.handle # NilHandle THEN "image" ELSE "panicked"

\* return sh.renderer.Image(handle)
ImageResolve(r) ==
  /\ sh' = r.sh
  /\ envs' = r.envs
  /\ tickLog' = r.log
  /\ lastState' = IF r.handle # NilHandle THEN r.state ELSE lastState
  /\ img' = IF r.handle # NilHandle THEN Image(r.sh.renderer, r.handle)
            ELSE img
  /\ pc' = IF r.handle # NilHandle THEN "image" ELSE "panicked"

\* Shader.Image: handle := sh.nextHandle(0), then the resolution.
ShaderImage ==
  /\ pc = "image"
  /\ ticks < MaxImages
  /\ ReloadReady(sh)
  /\ \E swapOrder \in Orders, tickOrder \in Orders, asks \in AskSets :
       /\ ImageResolve(NextHandle(sh, swapOrder, tickOrder, 0, ticks + 1,
                                   envs))
       /\ views' = ViewsOfTick(ReloadEnvironment(sh, swapOrder, envs),
                               tickOrder, asks)
  /\ ticks' = ticks + 1
  /\ UNCHANGED <<buffer, stream, streamClosed, otherVars, cancelled, producer, built,
                 reads, sent, overtaken>>

InitImage == InitAt("image")

NextImage ==
  \/ ShaderImage
  \/ PublishAny
  \/ RepublishAny
  \/ SetEnvironmentSend

ImageSpec == InitImage /\ [][NextImage]_vars


\* -------------------------------------------------------- videoTexture
\* A video texture and the goroutine that decodes its file. PreRender is
\* called by the render thread once per tick, with the Time of that tick.

\* The decoder goroutine of decodeVideoFile: out <- imgBuf.
DecodeVideoFrame ==
  /\ ~vtClosed
  /\ Len(vtStream) < VideoStreamCap
  /\ vtStream' = Append(vtStream, "frame")
  /\ UNCHANGED <<vtClosed, vtFrame, vtTime, vtPc, notVideoVars>>

\* The decoder fails: out <- err, return, and the deferred close(out).
DecodeVideoError ==
  /\ ~vtClosed
  /\ Len(vtStream) < VideoStreamCap
  /\ vtStream' = Append(vtStream, "error")
  /\ vtClosed' = TRUE
  /\ UNCHANGED <<vtFrame, vtTime, vtPc, notVideoVars>>

\* videoTexture.PreRender up to its receive: it returns at once when the
\* Time is before the next frame of the video, and else goes on to
\* val := <-vt.stream.
VideoPreRenderCall ==
  /\ vtPc = "idle"
  /\ vtTime <= MaxVideoTime
  /\ IF vtTime < (vtFrame + 1) * VideoFrameInterval
     THEN /\ vtPc' = "idle"
          /\ vtFrame' = vtFrame
          /\ vtTime' = vtTime + Interval
     ELSE /\ vtPc' = "receive"
          /\ vtFrame' = vtFrame + 1
          /\ vtTime' = vtTime
  /\ UNCHANGED <<vtStream, vtClosed, notVideoVars>>

\* The receive of videoTexture.PreRender and the rest of the call: it takes
\* what the decoder has queued, or nil from the closed channel.
VideoPreRenderReceive ==
  /\ vtPc = "receive"
  /\ vtStream # <<>> \/ vtClosed
  /\ vtStream' = IF vtStream # <<>> THEN Tail(vtStream) ELSE vtStream
  /\ vtPc' = "idle"
  /\ vtTime' = vtTime + Interval
  /\ UNCHANGED <<vtClosed, vtFrame, notVideoVars>>

VideoNext ==
  \/ DecodeVideoFrame
  \/ DecodeVideoError
  \/ VideoPreRenderCall
  \/ VideoPreRenderReceive

VideoSpec == Init /\ [][VideoNext]_vars


\* ------------------------------------------------------ OnScreenEngine
\* The engine that draws in a window. In its specification the variable sh
\* holds the OnScreenEngine and pc is "onscreen" while its Animate runs; its
\* reloadEnvironment is the one of Shader, line for line.

\* OnScreenEngine.targets: [2]struct{ fbo, tex uint32 }
NumOnScreenTargets == 2

\* The number of frames the window is watched for.
MaxOnScreenFrames == 3

NewOnScreenEngine ==
  [env |-> NilEnv, newEnvs |-> <<>>, subTargets |-> EmptyMap, program |-> 0,
   time |-> 0, frame |-> 0, i |-> 0,
   targets |-> [t \in 0..(NumOnScreenTargets - 1) |-> Blank]]

\* The RenderState of OnScreenEngine.Animate: the texture of the target
\* before the one drawn into, and no sub-buffers ("SubBuffers: nil, // TODO").
OnScreenRenderState(eng, interval) ==
  [Time |-> eng.time, Interval |-> interval, FramesProcessed |-> eng.frame,
   PreviousFrameTexID |->
     eng.targets[(eng.i + NumOnScreenTargets - 1) % NumOnScreenTargets],
   SubBuffers |-> EmptyMap]

\* One round of the loop of OnScreenEngine.Animate from the check of
\* reloadEnvironment's error on; r is what reloadEnvironment gave. The call
\* of PreRender on a nil environment panics.
OnScreenDraw(r, interval) ==
  IF r.err
  THEN /\ sh' = r.sh
       /\ envs' = r.envs
       /\ pc' = "onscreen"
       /\ UNCHANGED <<lastState, ticks>>
  ELSE IF r.sh.env = NilEnv
  THEN /\ sh' = r.sh
       /\ envs' = r.envs
       /\ pc' = "panicked"
       /\ UNCHANGED <<lastState, ticks>>
  ELSE /\ sh' = [r.sh EXCEPT
                   !.targets[r.sh.i % NumOnScreenTargets] =
                      [tick |-> ticks + 1, frame |-> r.sh.frame,
                       env |-> r.sh.env.id],
                   !.time = @ + interval,
                   !.frame = @ + 1,
                   !.i = @ + 1]
       /\ envs' = [r.envs EXCEPT ![r.sh.env.id] =
                     ShaderToyPreRender(@, OnScreenRenderState(r.sh, interval))]
       /\ lastState' = OnScreenRenderState(r.sh, interval)
       /\ ticks' = ticks + 1
       /\ pc' = "onscreen"

\* One round of the loop: the window is open and the context is not
\* cancelled; reloadEnvironment(ctx) has an environment or takes one. The
\* interval is what the clock measured since the last frame.
OnScreenAnimate ==
  /\ pc = "onscreen"
  /\ ~cancelled
  /\ ticks < MaxOnScreenFrames
  /\ ReloadReady(sh)
  /\ \E swapOrder \in Orders, interval \in 1..Interval :
       OnScreenDraw(ReloadEnvironment(sh, swapOrder, envs), interval)
  /\ UNCHANGED <<buffer, img, stream, streamClosed, otherVars, cancelled,
                 producer, built, reads, sent, overtaken, tickLog, views>>

\* Animate returns: the window has been closed, or the context is cancelled
\* (seen at the top of the loop or while reloadEnvironment waits).
OnScreenReturn ==
  /\ pc = "onscreen"
  /\ \E windowShouldClose \in BOOLEAN : windowShouldClose \/ cancelled
  /\ pc' = "returned"
  /\ UNCHANGED <<sh, envs, buffer, img, stream, streamClosed, otherVars,
                 cancelled, producer, built, reads, ticks, sent, overtaken,
                 lastState, tickLog, views>>

\* NewOnScreenEngine, with the caller about to run Animate.
OnScreenInit ==
  /\ sh = NewOnScreenEngine
  /\ envs = [id \in EnvIds |-> NewEnvObject]
  /\ built = 0
  /\ CallerInit("onscreen")
  /\ OtherInit

OnScreenNext ==
  \/ OnScreenAnimate
  \/ OnScreenReturn
  \/ PublishAny
  \/ RepublishAny
  \/ SetEnvironmentSend
  \/ Cancel

OnScreenSpec == OnScreenInit /\ [][OnScreenNext]_vars


\* ------------------------------------------------------------ Includes
\* The files are numbered; the include directives of a file are a list of
\* files, as the regular expression finds them. Every file can be read.
NumFiles == 3
MaxIncludes == 2

Files == 1..NumFiles

IncludeLists == UNION {[1..n -> Files] : n \in 0..MaxIncludes}

IncludeGraphs == [Files -> IncludeLists]

FilesIn(sources) == {sources[i] : i \in DOMAIN sources}

\* checkset := append(sources, currentFile)
Checkset(sources, currentFile) == Append(sources, currentFile)

\* The loop "outer": the included files that are not in checkset, in the
\* order of the directives.
IncludesOf(graph, currentFile, sources) ==
  LET NotInCheckset(f) == f \notin FilesIn(Checkset(sources, currentFile))
  IN SelectSeq(graph[currentFile], NotInCheckset)

\* processRecursive. inProgress holds the calls that have not returned, each
\* as the file it is at and the sources it was given: a call that is reached
\* again from inside itself never returns (the recursion goes on until the
\* stack is exhausted).
RECURSIVE ProcessRecursive(_, _, _, _)

\* sources = append(sources, currentFile), and the next round of the loop
\* over filenames; r is what the recursive call gave.
AppendCurrentFile(graph, filenames, inProgress, r) ==
  IF r.diverges THEN r
  ELSE ProcessRecursive(graph, Tail(filenames),
                        Append(r.sources, Head(filenames)), inProgress)

ProcessRecursive(graph, filenames, sources, inProgress) ==
  IF filenames = <<>>
  THEN [sources |-> sources, diverges |-> FALSE, returned |-> TRUE]
  ELSE IF <<Head(filenames), sources>> \in inProgress
  THEN [sources |-> sources, diverges |-> TRUE, returned |-> FALSE]
  ELSE AppendCurrentFile(
         graph, filenames, inProgress,
         ProcessRecursive(
           graph, IncludesOf(graph, Head(filenames), sources), sources,
           inProgress \cup {<<Head(filenames), sources>>}))

Includes(graph, filenames) == ProcessRecursive(graph, filenames, <<>>, {})

\* Some files with their include directives, and a file to call Includes on.
IncludesInit ==
  /\ EngineInit("reload")
  /\ BesideIncludesInit
  /\ includeGraph \in IncludeGraphs
  /\ includeArgs \in {<<f>> : f \in Files}
  /\ includeResult = NotRun

RunIncludes ==
  /\ includeResult = NotRun
  /\ includeResult' = Includes(includeGraph, includeArgs)
  /\ UNCHANGED <<includeGraph, includeArgs, notIncludeVars>>

IncludesSpec == IncludesInit /\ [][RunIncludes]_vars


\* ---------------------------------------------------- the frame limit
\* main with -n: Animate sends on the channel in, limitNumFrames passes the
\* first FrameLimit images on to the encoder through a channel without a
\* buffer, and the encoder goroutine cancels the context when its
\* EncodeAnimation returns. The variable stream is the channel in.
FrameLimit == 2

\* limitNumFrames, "for img := range in" and frame++: it takes the next image
\* of the channel in.
LimitReceive ==
  /\ limitPc = "range"
  /\ stream # <<>>
  /\ limitImg' = Head(stream)
  /\ stream' = Tail(stream)
  /\ limitFrame' = limitFrame + 1
  /\ limitPc' = "send"
  /\ UNCHANGED <<sh, envs, pc, buffer, img, streamClosed, cancelled, producer,
                 built, reads, ticks, sent, overtaken, lastState, tickLog, views,
                 outClosed, encoded, encoderPc, besideVars>>

\* limitNumFrames, "out <- img", which the range of the encoder takes, and
\* the check of the limit: at the limit it leaves the loop and the deferred
\* close(out) runs.
LimitSend ==
  /\ limitPc = "send"
  /\ encoderPc = "range"
  /\ encoded' = Append(encoded, limitImg)
  /\ limitPc' = IF limitFrame >= FrameLimit THEN "done" ELSE "range"
  /\ outClosed' = (limitFrame >= FrameLimit)
  /\ UNCHANGED <<engineVars, limitFrame, limitImg, encoderPc, besideVars>>

\* The encoder goroutine: the range of EncodeAnimation ends when the channel
\* is closed, EncodeAnimation returns, cancel().
EncoderDone ==
  /\ encoderPc = "range"
  /\ outClosed
  /\ encoderPc' = "returned"
  /\ cancelled' = TRUE
  /\ UNCHANGED <<sh, envs, pc, buffer, img, stream, streamClosed, producer,
                 built, reads, ticks, sent, overtaken, lastState, tickLog, views,
                 limitPc, limitFrame, limitImg, outClosed, encoded,
                 besideVars>>

\* main without -w: the environment newFn built has been handed over with
\* SetEnvironment, and Animate is about to run.
PipelineInit ==
  /\ \E kind \in Kinds :
       /\ sh = SetEnvironment(NewShader, [id |-> 1, kind |-> kind])
       /\ envs = [[id \in EnvIds |-> NewEnvObject] EXCEPT ![1].kind = kind]
  /\ built = 1
  /\ CallerInit("reload")
  /\ OtherInit

\* No signal comes.
PipelineNext ==
  \/ AnimateReload
  \/ AnimateTick
  \/ AnimateSend
  \/ AnimateDone
  \/ Close
  \/ LimitReceive
  \/ LimitSend
  \/ EncoderDone

PipelineSpec == PipelineInit /\ [][PipelineNext]_vars

\* Every goroutine that can take a step gets to take one.
FairPipelineSpec ==
  /\ PipelineSpec
  /\ WF_vars(AnimateStep)
  /\ WF_vars(Close)
  /\ WF_vars(LimitReceive)
  /\ WF_vars(LimitSend)
  /\ WF_vars(EncoderDone)


\* --------------------------------------------------- ShaderToy mappings
\* A mapping is a name and what it is mapped to. Lists of at most
\* MaxMappings mappings over two names and two values.
MaxMappings == 2

MappingNames == {"iChannel0", "iChannel1"}

Mappings == [Name : MappingNames, Value : 1..2]

MappingLists == UNION {[1..n -> Mappings] : n \in 0..MaxMappings}

ReverseSeq(s) == [i \in 1..Len(s) |-> s[Len(s) + 1 - i]]

\* The loop of deduplicateMappings: set holds the names seen.
RECURSIVE DeduplicateLoop(_, _, _)
DeduplicateLoop(inMappings, set, outMappings) ==
  IF inMappings = <<>> THEN outMappings
  ELSE IF Head(inMappings).Name \notin set
  THEN DeduplicateLoop(Tail(inMappings), set \cup {Head(inMappings).Name},
                       Append(outMappings, Head(inMappings)))
  ELSE DeduplicateLoop(Tail(inMappings), set, outMappings)

\* A deduplication that keeps the last mapping of every name.
DeduplicateMappingsKeepLast(inMappings) ==
  ReverseSeq(DeduplicateLoop(ReverseSeq(inMappings), {}, <<>>))

DeduplicateMappings(inMappings) == DeduplicateLoop(inMappings, {}, <<>>)

\* extractMappings returns what it found through deduplicateMappings.
ExtractMappings(found) == DeduplicateMappings(found)

\* What ShaderToy.Setup hands to deduplicateMappings:
\* append(st.Mappings, mappings...)
SetupInput == stMappings \o ExtractMappings(srcMappings)

\* A ShaderToy with mappings from the caller and mappings in its sources.
MappingsInit ==
  /\ EngineInit("reload")
  /\ BesideMappingsInit
  /\ stMappings \in MappingLists
  /\ srcMappings \in MappingLists
  /\ setupMappings = NotComputed

\* ShaderToy.Setup up to its loop over the mappings.
SetupMappings ==
  /\ setupMappings = NotComputed
  /\ setupMappings' = DeduplicateMappings(SetupInput)
  /\ UNCHANGED <<stMappings, srcMappings, notMappingVars>>

MappingsSpec == MappingsInit /\ [][SetupMappings]_vars


\* ------------------------------------------------------- parseGeometry
\* A string is the sequence of its characters; a number is written as its
\* decimal digits without leading zeros (zero is the empty sequence), so that
\* the 32 bits of strconv.ParseUint keep their width.
MaxGeometryLen == 3

GeometryAlphabet == {"0", "1", "2", "x", "-", " "}

ShortGeometries == UNION {[1..n -> GeometryAlphabet] : n \in 0..MaxGeometryLen}

EnvGeometry == <<"e", "n", "v">>

LongGeometries ==
  {EnvGeometry,
   <<"3", "0", "x", "9", "0">>,
   <<"1", "5", "0", "x", "1", "6">>,
   <<"0", "0", "7", "x", "0", "1", "0">>,
   <<"f", "o", "o", "x", "b", "a", "r">>,
   <<"l", "a", "l", "a", "l", "a">>,
   <<"4", "2", "9", "4", "9", "6", "7", "2", "9", "5", "x", "1">>,
   <<"4", "2", "9", "4", "9", "6", "7", "2", "9", "6", "x", "1">>,
   <<"1", "x", "9", "9", "9", "9", "9", "9", "9", "9", "9", "9", "9">>}

Geometries == ShortGeometries \cup LongGeometries

\* The values of LEDCAT_GEOMETRY; unset reads as the empty string.
LedcatGeometries ==
  {<<>>, <<"1", "5", "0", "x", "1", "6">>, <<"0", "x", "2">>, <<"x">>,
   EnvGeometry,
   <<"4", "2", "9", "4", "9", "6", "7", "2", "9", "6", "x", "1">>}

Digits == <<"0", "1", "2", "3", "4", "5", "6", "7", "8", "9">>

IsDigit(c) == \E d \in DOMAIN Digits : Digits[d] = c

DigitValue(c) == (CHOOSE d \in DOMAIN Digits : Digits[d] = c) - 1

\* \d+
AllDigits(s) == s # <<>> /\ \A i \in DOMAIN s : IsDigit(s[i])

\* regexp.MustCompile(`^(\d+)x(\d+)$`).FindStringSubmatch(geom): the two
\* groups, or nil (the empty sequence) when the string does not match.
FindStringSubmatch(g) ==
  IF \E i \in DOMAIN g :
       /\ g[i] = "x"
       /\ AllDigits(SubSeq(g, 1, i - 1))
       /\ AllDigits(SubSeq(g, i + 1, Len(g)))
  THEN LET i == CHOOSE i \in DOMAIN g :
                  /\ g[i] = "x"
                  /\ AllDigits(SubSeq(g, 1, i - 1))
                  /\ AllDigits(SubSeq(g, i + 1, Len(g)))
       IN <<g, SubSeq(g, 1, i - 1), SubSeq(g, i + 1, Len(g))>>
  ELSE <<>>

RECURSIVE StripZeros(_)
StripZeros(s) ==
  IF s # <<>> /\ Head(s) = "0" THEN StripZeros(Tail(s)) ELSE s

\* 1<<32 - 1
MaxUint32 == <<"4", "2", "9", "4", "9", "6", "7", "2", "9", "5">>

\* n > 1<<32 - 1, for a number without leading zeros.
ExceedsUint32(n) ==
  \/ Len(n) > Len(MaxUint32)
  \/ /\ Len(n) = Len(MaxUint32)
     /\ \E i \in DOMAIN n :
          /\ DigitValue(n[i]) > DigitValue(MaxUint32[i])
          /\ \A j \in 1..(i - 1) : n[j] = MaxUint32[j]

\* w, _ := strconv.ParseUint(s, 10, 32) on a string of digits: the number,
\* or, with the range error that is dropped, the largest number of 32 bits.
ParseUint(s) ==
  IF ExceedsUint32(StripZeros(s)) THEN MaxUint32 ELSE StripZeros(s)

\* parseGeometry from the regular expression on; matches is what
\* FindStringSubmatch gave.
GeometryOfMatches(matches) ==
  IF matches = <<>> THEN [w |-> <<>>, h |-> <<>>, err |-> "invalid geometry"]
  ELSE IF ParseUint(matches[2]) = <<>> \/ ParseUint(matches[3]) = <<>>
  THEN [w |-> <<>>, h |-> <<>>, err |-> "no geometry dimension can be 0"]
  ELSE [w |-> ParseUint(matches[2]), h |-> ParseUint(matches[3]),
        err |-> "nil"]

ParseGeometry(g, env) ==
  IF g = EnvGeometry /\ env = <<>>
  THEN [w |-> <<>>, h |-> <<>>, err |-> "LEDCAT_GEOMETRY is empty"]
  ELSE GeometryOfMatches(
         FindStringSubmatch(IF g = EnvGeometry THEN env ELSE g))

\* A string to parse and a value of the environment variable.
GeometryInit ==
  /\ EngineInit("reload")
  /\ BesideGeometryInit
  /\ geom \in Geometries
  /\ ledcatGeometry \in LedcatGeometries
  /\ geomResult = NotParsed

RunParseGeometry ==
  /\ geomResult = NotParsed
  /\ geomResult' = ParseGeometry(geom, ledcatGeometry)
  /\ UNCHANGED <<geom, ledcatGeometry, notGeometryVars>>

GeometrySpec == GeometryInit /\ [][RunParseGeometry]_vars


\* ----------------------------------------------------- watchEnvironment
\* main with -w: watchEnvironment builds the environment with newFn, hands it
\* to the engine and waits for a change of the files newFn named; a user
\* edits the source files meanwhile. The variable producer is the
\* environment watchEnvironment is calling SetEnvironment with.
MaxBuilds == 3
MaxChanges == 2

\* The files of the shader: the file given on the command line and a file it
\* includes.
SourceFileNames == {"main.glsl", "common.glsl"}

\* What the source files can be like: all is well, an include directive
\* names a file that cannot be read, or the environment cannot be made of
\* them.
FileStates == {"good", "badInclude", "badEnvironment"}

\* newFn: Includes, ParseMapping for every mapping, NewShaderToy. Includes
\* returns nil for the list of files when it fails.
NewFnErr(files, mappings) == files # "good" \/ ~mappings

NewFnFiles(files) == IF files = "badInclude" THEN {} ELSE SourceFileNames

\* watchEnvironment from fsnotify.NewWatcher to the check of the error: the
\* files newFn returned are added to the new watcher; without an error,
\* engine.SetEnvironment(env) is called.
WatchBuild ==
  /\ watchPc = "build"
  /\ ~cancelled
  /\ watchBuilds < MaxBuilds
  /\ NewFnErr(fileState, mappingsOk) \/ built < MaxPublish
  /\ watchBuilds' = watchBuilds + 1
  /\ watched' = NewFnFiles(fileState)
  /\ watchEvents' = FALSE
  /\ IF NewFnErr(fileState, mappingsOk)
     THEN /\ watchPc' = "failed"
          /\ UNCHANGED <<producer, built, envs, overtaken>>
     ELSE /\ watchPc' = "published"
          /\ producer' = [id |-> built + 1, kind |-> "plain"]
          /\ built' = built + 1
          /\ envs' = [envs EXCEPT ![built + 1].kind = "plain"]
          /\ overtaken' = overtaken \cup Queued
  /\ UNCHANGED <<sh, pc, buffer, img, stream, streamClosed, cancelled, reads,
                 ticks, sent, lastState, tickLog, views, fileState, mappingsOk,
                 fileChanges, notWatchVars>>

\* The select after a build: an event of the watcher, an error of the
\* watcher or the cancellation ends the wait (after a published environment:
\* once SetEnvironment has returned); watcher.Close() and the next round.
WatchWake ==
  /\ \/ watchPc = "failed"
     \/ watchPc = "published" /\ producer = Idle
  /\ \E watcherError \in BOOLEAN : watchEvents \/ cancelled \/ watcherError
  /\ watched' = {}
  /\ watchEvents' = FALSE
  /\ watchPc' = "build"
  /\ UNCHANGED <<engineVars, fileState, mappingsOk, watchBuilds, fileChanges,
                 notWatchVars>>

\* for ctx.Err() == nil
WatchStop ==
  /\ watchPc = "build"
  /\ cancelled
  /\ watchPc' = "stopped"
  /\ UNCHANGED <<engineVars, watched, watchEvents, fileState, mappingsOk,
                 watchBuilds, fileChanges, notWatchVars>>

\* The user saves the source files in another condition; a watcher that
\* watches them gets an event.
FileChange ==
  /\ fileChanges < MaxChanges
  /\ \E new \in FileStates \ {fileState} : fileState' = new
  /\ fileChanges' = fileChanges + 1
  /\ watchEvents' = (watchEvents \/ watched # {})
  /\ UNCHANGED <<engineVars, watchPc, watched, mappingsOk, watchBuilds,
                 notWatchVars>>

\* main has started watchEnvironment and Animate.
WatchInit ==
  /\ EngineInit("reload")
  /\ BesideWatchInit
  /\ watchPc = "build"
  /\ watched = {}
  /\ watchEvents = FALSE
  /\ fileState \in FileStates
  /\ mappingsOk \in BOOLEAN
  /\ watchBuilds = 0
  /\ fileChanges = 0

WatchNext ==
  \/ WatchBuild
  \/ WatchWake
  \/ WatchStop
  \/ FileChange
  \/ SetEnvironmentSend
  \/ AnimateCanceled
  \/ AnimateReload
  \/ AnimateTick
  \/ AnimateSend
  \/ AnimateDone
  \/ Cancel

WatchSpec == WatchInit /\ [][WatchNext]_vars


\* ----------------------------------------------------------- periphMat4
\* A peripheral of a ShaderToy and the goroutine that reads its lines. The
\* reader is a file, which ends, or a serial port or FIFO, on which a read
\* waits for the device; when the reader cannot be opened and the mapping
\* says so, there is no goroutine.
MaxLines == 4

PeriphSources == {"none", "file", "stream"}

\* The select at the top of the reader's loop. Its break leaves the select,
\* not the loop: with closed closed or not, the goroutine goes on to
\* br.ReadBytes.
PeriphSelect ==
  /\ readerPc = "select"
  /\ readerPc' = IF prClosed THEN "read" ELSE "read"
  /\ UNCHANGED <<periphSource, periphInput, periphWritten, prClosed,
                 loopClosed, closePc, readAfterClose, notPeriphVars>>

\* br.ReadBytes returns a line, and the rest of the round: the line is
\* parsed and, when it is a matrix, stored.
PeriphReadLine ==
  /\ readerPc = "read"
  /\ periphInput > 0
  /\ periphInput' = periphInput - 1
  /\ readAfterClose' = IF prClosed THEN readAfterClose + 1 ELSE readAfterClose
  /\ readerPc' = "select"
  /\ UNCHANGED <<periphSource, periphWritten, prClosed, loopClosed, closePc,
                 notPeriphVars>>

\* br.ReadBytes returns an error, the end of the file: the goroutine leaves
\* the loop, and the deferred close(pr.loopClosed) and reader.Close() run.
PeriphReadError ==
  /\ readerPc = "read"
  /\ periphInput = 0
  /\ periphSource = "file"
  /\ readerPc' = "done"
  /\ loopClosed' = TRUE
  /\ UNCHANGED <<periphSource, periphInput, periphWritten, prClosed, closePc,
                 readAfterClose, notPeriphVars>>

\* The device writes a line.
PeriphWrite ==
  /\ periphSource = "stream"
  /\ periphWritten < MaxLines
  /\ periphWritten' = periphWritten + 1
  /\ periphInput' = periphInput + 1
  /\ UNCHANGED <<periphSource, prClosed, loopClosed, readerPc, closePc,
                 readAfterClose, notPeriphVars>>

\* periphMat4.Close up to its receive: without a goroutine it returns at
\* once, else close(pr.closed).
PeriphClose ==
  /\ closePc = "idle"
  /\ IF periphSource = "none"
     THEN closePc' = "returned" /\ prClosed' = prClosed
     ELSE closePc' = "waiting" /\ prClosed' = TRUE
  /\ UNCHANGED <<periphSource, periphInput, periphWritten, loopClosed,
                 readerPc, readAfterClose, notPeriphVars>>

\* <-pr.loopClosed; return nil
PeriphCloseReturn ==
  /\ closePc = "waiting"
  /\ loopClosed
  /\ closePc' = "returned"
  /\ UNCHANGED <<periphSource, periphInput, periphWritten, prClosed,
                 loopClosed, readerPc, readAfterClose, notPeriphVars>>

\* The reader goroutine can go on by itself.
PeriphReaderCanStep ==
  \/ readerPc = "select"
  \/ readerPc = "read" /\ (periphInput > 0 \/ periphSource = "file")

\* newMat4Peripheral has returned: a file with some lines, a device that has
\* written nothing yet, or no reader.
PeripheralInit ==
  /\ EngineInit("reload")
  /\ BesidePeripheralInit
  /\ periphSource \in PeriphSources
  /\ periphInput \in 0..MaxLines
  /\ periphSource # "file" => periphInput = 0
  /\ periphWritten = 0
  /\ prClosed = FALSE
  /\ loopClosed = FALSE
  /\ readerPc = IF periphSource = "none" THEN "none" ELSE "select"
  /\ closePc = "idle"
  /\ readAfterClose = 0

PeripheralNext ==
  \/ PeriphSelect
  \/ PeriphReadLine
  \/ PeriphReadError
  \/ PeriphWrite
  \/ PeriphClose
  \/ PeriphCloseReturn

PeripheralSpec == PeripheralInit /\ [][PeripheralNext]_vars


\* ---------------------------------------------------------------- claims
\* The step in which a reloadEnvironment takes the queued environment.
Consumed == Head(sh.newEnvs)

ConsumesEnvironment ==
  /\ sh.newEnvs # <<>>
  /\ Len(sh'.newEnvs) < Len(sh.newEnvs)
  /\ Consumed # NilEnv

\* ... and the swap to it fails.
SwapFails == ConsumesEnvironment /\ sh'.env # Consumed

\* The environment objects of one swap attempt: the published environment
\* and its sub-environments.
AttemptIds(env) == {env.id} \cup {SubId(env.id, n) : n \in SubNames}

\* C1: when a swap to a newly published Environment fails, the previously
\* active Environment and program stay the engine's active ones, unmodified
\* (not closed), so that the following ticks go to them.
C1_PreviousStaysActive ==
  [][(SwapFails /\ sh.env # NilEnv)
       => /\ sh'.env = sh.env
          /\ sh'.program = sh.program
          /\ envs'[sh.env.id].closes = envs[sh.env.id].closes]_vars

\* C2: when a swap fails, every resource opened for the new Environment and
\* its sub-environments has been closed when the error is returned: as many
\* closed as opened.
C2_FailedSwapLeavesNothingOpen ==
  [][SwapFails
       => \A id \in AttemptIds(Consumed) :
            envs'[id].opened = envs'[id].released]_vars

\* C3: the k-th image sent on the egress channel is the image drawn by the
\* k-th tick (the k-th call of nextHandle) of the run.
C3_FramesInTickOrder ==
  \A k \in 1..Len(sent) : sent[k].tick = k

\* Two frames have been delivered and an environment swap lay between them.
C3_Witness ==
  /\ Len(sent) >= 2
  /\ sent[1].env # sent[2].env

\* C4: once the cancellation has been raised, no further frame is sent on the
\* egress channel.
C4_NoSendAfterCancel ==
  [][cancelled => sent' = sent]_vars

\* C5: after the cancellation has been raised Animate returns (and Close
\* follows): it is never left waiting where the cancellation does not reach
\* it, that is, as long as it has not returned it can take a step by itself.
C5_ReturnsAfterCancel ==
  cancelled => (pc \in {"returned", "closed"} \/ AnimateCanStep)

C7_OvertakenNeverSetUp ==
  \A id \in overtaken : envs[id].setups = 0

\* C8: a call of SetEnvironment never has to wait: whenever one is under way,
\* the hand-off queue takes the value.
C8_SetEnvironmentNeverWaits ==
  producer # Idle => Len(sh.newEnvs) < NewEnvsCap

\* The counters as the last tick of the root engine left them.
LeftByLastTick ==
  IF lastState = NoRenderState THEN [Time |-> 0, FramesProcessed |-> 0]
  ELSE [Time |-> lastState.Time + lastState.Interval,
        FramesProcessed |-> lastState.FramesProcessed + 1]

\* C9: the Time and FramesProcessed an Environment gets in its Setup and in
\* its first PreRender are the counters as the last tick before left them.
C9_CountersContinueAcrossSwap ==
  [][\A id \in RootIds :
       /\ envs'[id].setups > envs[id].setups
            => envs'[id].setupState = LeftByLastTick
       /\ (envs[id].preRenders = 0 /\ envs'[id].preRenders > 0)
            => envs'[id].firstPreRender = LeftByLastTick]_vars

\* A second environment had its first PreRender after the first one had been
\* ticked.
C9_Witness ==
  \E id \in RootIds :
    /\ envs[id].firstPreRender.FramesProcessed > 0
    /\ envs[id].firstPreRender.Time > 0
    /\ envs[id].setupState = envs[id].firstPreRender

\* The root engine has just completed a tick with the child engines A and B.
TickedWithChildren ==
  /\ tickLog # <<>>
  /\ tickLog[Len(tickLog)] = <<"Draw", "root">>
  /\ DOMAIN sh.subTargets = SubNames

\* C10: in a tick of a parent with the child engines A and B, each child has
\* drawn its frame of this tick and the texture of that frame has been taken
\* before the parent's PreRender, which comes before the parent's Draw; the
\* textures handed to PreRender are those frames.
C10_ChildrenBeforeParent ==
  TickedWithChildren =>
    /\ DOMAIN lastState.SubBuffers = SubNames
    /\ \A n \in SubNames :
         /\ \E i, j, k \in DOMAIN tickLog :
              /\ i < j /\ j < k /\ k < Len(tickLog)
              /\ tickLog[i] = <<"Draw", n>>
              /\ tickLog[j] = <<"Texture", n>>
              /\ tickLog[k] = <<"PreRender", "root">>
         /\ lastState.SubBuffers[n].tick = ticks
         /\ lastState.SubBuffers[n] =
              Image(sh.subTargets[n].renderer,
                    sh.subTargets[n].prevFrameHandle)

\* Such a tick has happened, and it was not the first one.
C10_Witness ==
  /\ TickedWithChildren
  /\ ticks >= 2
  /\ \A n \in SubNames : lastState.SubBuffers[n].frame >= 1

\* C11: every Environment on which Setup has been called gets Close exactly
\* once: never twice, and once the engine has been closed none is left that
\* was set up and not closed.
C11_ClosedExactlyOnce ==
  \A id \in EnvIds :
    /\ envs[id].closes <= 1
    /\ (pc = "closed" /\ envs[id].setups > 0) => envs[id].closes = 1

TickStep == ticks' = ticks + 1

\* What a tick does with an environment pending: it takes it, closes the
\* active one before anything else, sets the new one up, and a PreRender of
\* this tick goes to no other environment than the new one.
TickSwapsFirst ==
  /\ sh'.newEnvs = Tail(sh.newEnvs)
  /\ tickLog' # <<>>
  /\ tickLog'[1] = <<"Swap", "root">>
  /\ envs'[sh.env.id].calls[Len(envs[sh.env.id].calls) + 1] = "Close"
  /\ Consumed # NilEnv =>
       envs'[Consumed.id].setups = envs[Consumed.id].setups + 1
  /\ \A id \in RootIds \ {Consumed.id} :
       envs'[id].preRenders = envs[id].preRenders

\* What a tick does with nothing pending: it keeps the environment and calls
\* its PreRender.
TickGoesOn ==
  /\ sh'.env = sh.env
  /\ envs'[sh.env.id].calls = Append(envs[sh.env.id].calls, "PreRender")
  /\ tickLog' # <<>>
  /\ tickLog'[1] # <<"Swap", "root">>

\* C13: a tick of an engine with an active Environment never waits; when an
\* Environment is pending in the queue the tick performs the swap before its
\* PreRender, when none is pending it goes on with the active one.
C13_PendingSwapFirst ==
  /\ []((pc = "tick" /\ sh.env # NilEnv) => AnimateCanStep)
  /\ [][(TickStep /\ sh.env # NilEnv)
          => IF sh.newEnvs # <<>> THEN TickSwapsFirst ELSE TickGoesOn]_vars

\* A tick has just swapped to the second environment and drawn with it.
C13_Witness ==
  /\ Len(tickLog) >= 3
  /\ tickLog[1] = <<"Swap", "root">>
  /\ tickLog[Len(tickLog)] = <<"Draw", "root">>
  /\ sh.env.id = 2
  /\ envs[1].closes = 1
  /\ envs[1].preRenders >= 1
  /\ envs[2].preRenders = 1

\* C14: between the steps of Animate fewer than N handles are queued, so that
\* with the frame a tick draws at most N frames are drawn and not resolved;
\* and no step draws into a target whose handle is queued: the content of
\* such a target is left as it is until the handle has been resolved.
C14_InFlightBounded ==
  /\ [](Len(buffer) < NumTargets)
  /\ [][\A i \in DOMAIN buffer :
          buffer[i] # NilHandle
            => sh'.renderer.targets[buffer[i]] =
                 sh.renderer.targets[buffer[i]]]_vars

\* The ring has gone round: N - 1 frames are queued and a target has been
\* drawn into for the second time.
C14_Witness ==
  /\ Len(buffer) = NumTargets - 1
  /\ \A i \in DOMAIN buffer : buffer[i] # NilHandle
  /\ sh.frame > NumTargets
  /\ pc = "send"

\* C15: Animate resolves its first image only after N ticks, and the frame it
\* resolves is always the one drawn N - 1 draws before the most recent Draw
\* (so, the ring having more than one target, never the most recent one).
C15_ResolvesOldestOfFullRing ==
  /\ img # Blank => ticks >= NumTargets
  /\ pc = "send" =>
       /\ img.frame = (sh.frame - 1) - (NumTargets - 1)
       /\ img # Image(sh.renderer, sh.prevFrameHandle)

\* C16: once Animate has returned, and once the engine has been closed, the
\* egress channel is closed, so that a consumer reading until the channel
\* closes comes to an end.
C16_StreamClosedWhenStopped ==
  pc \in {"returned", "closed"} => streamClosed

\* C17: when Animate has returned, every frame its ticks have drawn has been
\* sent on the egress channel.
C17_NoFrameDropped ==
  pc = "returned" => Len(sent) = sh.frame

\* C18: when a swap fails, no child engine built for it remains registered in
\* the parent, and every sub-environment that was set up for it has been
\* closed.
C18_NoPartialChildren ==
  [][SwapFails
       => /\ \A n \in DOMAIN sh'.subTargets :
               sh'.subTargets[n].env.id \notin AttemptIds(Consumed)
          /\ \A n \in SubNames :
               envs'[SubId(Consumed.id, n)].setups
                   > envs[SubId(Consumed.id, n)].setups
                 => envs'[SubId(Consumed.id, n)].closes
                      > envs[SubId(Consumed.id, n)].closes]_vars

\* C19: an Environment that has been set up is not set up a second time: the
\* engine rejects it when it is handed over again.
C19_NeverSetUpTwice ==
  \A id \in RootIds : envs[id].setups <= 1

\* C20: a call of Shader.Image makes exactly one tick, with interval 0 (the
\* frame counter goes up by one, the time stays), and what it returns is the
\* frame drawn by that very tick, from the first call on.
C20_ImageIsOneTick ==
  [][(pc = "image" /\ ticks' # ticks)
       => /\ ticks' = ticks + 1
          /\ pc' = "image" =>
               /\ sh'.frame = sh.frame + 1
               /\ sh'.time = sh.time
               /\ lastState'.Interval = 0
               /\ img'.tick = ticks'
               /\ img'.frame = sh.frame
               /\ img' = Image(sh'.renderer, sh'.prevFrameHandle)]_vars

\* Shader.Image has been called twice and has returned the frame of the
\* second call.
C20_Witness ==
  /\ pc = "image"
  /\ ticks = 2
  /\ img.tick = 2
  /\ img.frame = 1

\* C21: two calls of Shader.Image on the same environment, with nothing handed
\* over in between, present the Environment with the same render state: the
\* second render does not depend on the first having happened.
C21_SecondImageSameState ==
  [][(/\ pc = "image"
      /\ TickStep
      /\ pc' = "image"
      /\ lastState # NoRenderState
      /\ sh.newEnvs = <<>>
      /\ sh'.env = sh.env)
       => lastState' = lastState]_vars

\* C22: PreRender of a Resource never waits for data from another thread:
\* the render thread is never inside videoTexture.PreRender with nothing to
\* take from the decoder.
C22_PreRenderNeverWaits ==
  ~(vtPc = "receive" /\ vtStream = <<>> /\ ~vtClosed)

\* C23: every tick advances the frame counter by one and the time by the
\* interval, after PreRender and at no other moment: the k-th tick gives
\* PreRender FramesProcessed = k - 1 and Time = the intervals of the k - 1
\* ticks before it, and no counter ever goes down.
C23_EveryTickAdvances ==
  [][/\ sh'.frame >= sh.frame
     /\ sh'.time >= sh.time
     /\ (TickStep /\ pc' # "panicked")
          => /\ sh'.frame = sh.frame + 1
             /\ sh'.time = sh.time + Interval
             /\ lastState'.FramesProcessed = ticks
             /\ lastState'.Time = Interval * ticks
     /\ ~TickStep => sh'.frame = sh.frame /\ sh'.time = sh.time]_vars

\* C24: the previous-frame accessor that PreRender gets yields no texture in
\* the engine's first tick, and from the second tick on the frame the engine
\* drew in its tick before, never the frame of the tick that is running.
C24_PreviousFrameIsLastDrawn ==
  lastState # NoRenderState
    => IF lastState.FramesProcessed = 0
       THEN lastState.PreviousFrameTexID = Blank
       ELSE /\ lastState.PreviousFrameTexID.frame
                 = lastState.FramesProcessed - 1
            /\ lastState.PreviousFrameTexID.tick < ticks
            /\ lastState.PreviousFrameTexID.tick >= 1

\* The engine's fourth tick, which draws on the target of its first again,
\* has had the frame of its third.
C24_Witness ==
  /\ lastState.FramesProcessed = 3
  /\ lastState.PreviousFrameTexID.frame = 2
  /\ lastState.PreviousFrameTexID.tick = 3
  /\ ticks = 4

\* C25: in every PreRender call of an engine, the off-screen Shader and the
\* OnScreenEngine alike, the SubBuffers of the RenderState hold one texture
\* for each sub-environment of the Environment.
C25_SubBuffersForEveryChild ==
  [][(lastState' # lastState /\ sh'.env # NilEnv)
       => DOMAIN lastState'.SubBuffers = SubEnvironmentNames(sh'.env.kind)]_vars

\* The environment of the engine and those of its child engines.
CurrentEnvironments ==
  ({sh.env.id} \cup {sh.subTargets[n].env.id : n \in DOMAIN sh.subTargets})
    \ {NilEnv.id}

\* The place of a call in the record of calls (0 when it was not made).
PlaceIn(log, call) ==
  IF \E i \in DOMAIN log : log[i] = call
  THEN CHOOSE i \in DOMAIN log : log[i] = call
  ELSE 0

\* C26: Close closes the current environment first, then every child engine
\* (its environment, then its ring), then frees the ring; when it returns,
\* the current environment and the environment of every child engine have
\* been closed exactly once by it, and no other environment has been touched.
C26_CloseClosesAllOnce ==
  [][(pc = "returned" /\ pc' = "closed")
       => /\ \A id \in EnvIds :
               envs'[id].closes
                 = envs[id].closes
                     + (IF id \in CurrentEnvironments THEN 1 ELSE 0)
          /\ sh.env # NilEnv => PlaceIn(tickLog', <<"Close", "root">>) = 1
          /\ PlaceIn(tickLog', <<"Free", "root">>) = Len(tickLog')
          /\ \A n \in DOMAIN sh.subTargets :
               /\ PlaceIn(tickLog', <<"Close", n>>)
                    > PlaceIn(tickLog', <<"Close", "root">>)
               /\ PlaceIn(tickLog', <<"Free", n>>)
                    = PlaceIn(tickLog', <<"Close", n>>) + 1
          /\ Len(tickLog')
               = 1 + (IF sh.env # NilEnv THEN 1 ELSE 0)
                   + 2 * Cardinality(DOMAIN sh.subTargets)]_vars

\* An engine with two child engines has been closed: the environment first,
\* each child after it, the ring last.
C26_Witness ==
  /\ pc = "closed"
  /\ DOMAIN sh.subTargets = SubNames
  /\ sh.env # NilEnv
  /\ envs[sh.env.id].closes = 1
  /\ \A n \in SubNames : envs[sh.subTargets[n].env.id].closes = 1
  /\ Len(tickLog) = 6

\* C27: Includes terminates on every include graph, also on one with a
\* cycle: no call of processRecursive is reached again from inside itself.
C27_IncludesTerminates ==
  ~includeResult.diverges

\* The files reached from the files of set by include directives.
RECURSIVE ReachableFrom(_, _)
ReachableFrom(graph, set) ==
  LET next == set \cup UNION {FilesIn(graph[f]) : f \in set}
  IN IF next = set THEN set ELSE ReachableFrom(graph, next)

\* The place of the first entry of a list that names the file.
FirstPlace(sources, f) ==
  CHOOSE i \in DOMAIN sources :
    sources[i] = f /\ \A j \in 1..(i - 1) : sources[j] # f

\* C28: what Includes returns holds the argument file and every file it
\* includes, directly or through other files, each exactly once, every
\* included file before the file that includes it and the argument file last.
C28_EachFileOnceInOrder ==
  includeResult.returned
    => /\ FilesIn(includeResult.sources)
            = ReachableFrom(includeGraph, FilesIn(includeArgs))
       /\ Len(includeResult.sources)
            = Cardinality(ReachableFrom(includeGraph, FilesIn(includeArgs)))
       /\ includeResult.sources[Len(includeResult.sources)] = includeArgs[1]
       /\ \A f \in FilesIn(includeResult.sources) :
            \A g \in FilesIn(includeGraph[f]) \ {f} :
              FirstPlace(includeResult.sources, g)
                < FirstPlace(includeResult.sources, f)

\* C29: with a frame limit the encoder receives the first FrameLimit frames
\* Animate delivers, in order, and then finds its channel closed; it returns,
\* the context is cancelled and Animate returns: the pipeline comes to an end.
C29_LimitedPipelineTerminates ==
  /\ [](encoderPc = "returned"
          => /\ Len(sent) >= FrameLimit
             /\ encoded = SubSeq(sent, 1, FrameLimit))
  /\ <>(encoderPc = "returned" /\ cancelled /\ pc \in {"returned", "closed"})

\* The place of the first mapping of a list that has the name (0 when there
\* is none).
FirstWithName(list, name) ==
  IF \E i \in DOMAIN list : list[i].Name = name
  THEN CHOOSE i \in DOMAIN list :
         list[i].Name = name /\ \A j \in 1..(i - 1) : list[j].Name # name
  ELSE 0

\* C30: what deduplicateMappings returns has pairwise distinct names and
\* holds, for every name of its input, exactly the first mapping of that
\* name, in the order of the input; so in ShaderToy.Setup a mapping of the
\* caller wins over a mapping of the same name found in the sources.
C30_FirstOccurrenceWins ==
  setupMappings # NotComputed
    => /\ \A i, j \in DOMAIN setupMappings :
            setupMappings[i].Name = setupMappings[j].Name => i = j
       /\ {setupMappings[i].Name : i \in DOMAIN setupMappings}
            = {SetupInput[i].Name : i \in DOMAIN SetupInput}
       /\ \A i \in DOMAIN setupMappings :
            setupMappings[i]
              = SetupInput[FirstWithName(SetupInput, setupMappings[i].Name)]
       /\ \A i, j \in DOMAIN setupMappings :
            i < j => FirstWithName(SetupInput, setupMappings[i].Name)
                       < FirstWithName(SetupInput, setupMappings[j].Name)
       /\ \A i \in DOMAIN stMappings :
            setupMappings[FirstWithName(setupMappings, stMappings[i].Name)]
              = stMappings[FirstWithName(stMappings, stMappings[i].Name)]

\* The caller and the sources map the same name to different things, and
\* Setup has taken the caller's.
C30_Witness ==
  /\ setupMappings # NotComputed
  /\ stMappings = <<[Name |-> "iChannel0", Value |-> 1]>>
  /\ srcMappings = <<[Name |-> "iChannel1", Value |-> 1],
                     [Name |-> "iChannel0", Value |-> 2]>>
  /\ setupMappings = <<[Name |-> "iChannel0", Value |-> 1],
                       [Name |-> "iChannel1", Value |-> 1]>>

\* The string parseGeometry has to read: the value of LEDCAT_GEOMETRY when
\* it is called with env, its argument otherwise.
GeometryText == IF geom = EnvGeometry THEN ledcatGeometry ELSE geom

\* The numeral of a decimal integer greater than zero.
PositiveDecimal(s) ==
  /\ s # <<>>
  /\ \A i \in DOMAIN s : IsDigit(s[i])
  /\ \E i \in DOMAIN s : s[i] # "0"

\* The text is W x H at the place i, with W and H greater than zero.
IsGeometryAt(text, i) ==
  /\ text[i] = "x"
  /\ PositiveDecimal(SubSeq(text, 1, i - 1))
  /\ PositiveDecimal(SubSeq(text, i + 1, Len(text)))

\* C31: parseGeometry succeeds exactly on the strings W x H with W and H
\* decimal integers greater than zero (on env: when LEDCAT_GEOMETRY holds
\* such a string), and it then returns the numbers W and H; on every other
\* string it returns an error.
C31_ParsesExactlyPositiveGeometries ==
  geomResult # NotParsed =>
    /\ geomResult.err = "nil"
         <=> \E i \in DOMAIN GeometryText : IsGeometryAt(GeometryText, i)
    /\ \A i \in DOMAIN GeometryText :
         IsGeometryAt(GeometryText, i)
           => /\ geomResult.w = StripZeros(SubSeq(GeometryText, 1, i - 1))
              /\ geomResult.h
                   = StripZeros(SubSeq(GeometryText, i + 1, Len(GeometryText)))

\* The number of times the view of entry i of the record has been released.
Releases(log, i) ==
  Cardinality({j \in DOMAIN log :
                 log[j] = ReleaseView(log[i].kind, log[i].name)})

\* C32: every texture view that a tick takes with the ring's Texture, the
\* view of the previous frame and the view of each child's frame alike, has
\* been released exactly once when the tick returns.
C32_EveryViewReleasedOnce ==
  \A i \in DOMAIN views :
    views[i].op = "Texture" => Releases(views, i) = 1

\* The sub-environments whose engine has been built (their Setup has been
\* called by a child engine) and has not been closed.
OpenChildren ==
  {id \in EnvIds \ RootIds : envs[id].setups > envs[id].closes}

\* The sub-environments of the environment the engine is running.
ActiveSubEnvironments ==
  IF sh.env = NilEnv THEN {}
  ELSE {SubId(sh.env.id, n) : n \in SubEnvironmentNames(sh.env.kind)}

\* C33: when the engine swaps environments, every child engine built for
\* the environment that is replaced is closed, exactly once; and there are
\* never more open child engines than the running environment has
\* sub-environments.
C33_ChildrenClosedOnSwap ==
  /\ [](Cardinality(OpenChildren) <= Cardinality(ActiveSubEnvironments))
  /\ [][(sh.newEnvs # <<>> /\ sh'.newEnvs = <<>> /\ sh.env # NilEnv)
          => \A n \in DOMAIN sh.subTargets :
               envs'[sh.subTargets[n].env.id].closes
                 = envs[sh.subTargets[n].env.id].closes + 1]_vars

\* C34: every handle in Animate's buffer, and so every handle it passes to
\* the ring's Image, is one a Draw of this engine has returned: the index of
\* a target that has been drawn into. A tick whose swap fails is no
\* exception.
C34_BufferedHandlesAreDrawn ==
  \A i \in DOMAIN buffer :
    /\ buffer[i] \in DOMAIN sh.renderer.targets
    /\ sh.renderer.targets[buffer[i]] # Blank

\* C35: while the engine has no environment (none handed over yet, the last
\* swap failed, or nil was handed over), Animate is not in a tick and sends
\* no frame, and once the context is cancelled it returns: it has returned
\* or can take its next step by itself.
C35_IdleWithoutEnvironment ==
  /\ []((sh.env = NilEnv /\ pc \notin {"returned", "closed"})
          => /\ pc # "tick"
             /\ cancelled => AnimateCanStep)
  /\ [][sh.env = NilEnv => (ticks' = ticks /\ sent' = sent)]_vars

\* The root engine has just completed a tick.
TickedRoot ==
  /\ tickLog # <<>>
  /\ tickLog[Len(tickLog)] = <<"Draw", "root">>

\* The Time and FramesProcessed the PreRender of the child engine n got in
\* the tick just made: its counters before they were advanced.
ChildPreRenderState(n) ==
  [Time |-> sh.subTargets[n].time - lastState.Interval,
   FramesProcessed |-> sh.subTargets[n].frame - 1]

\* C36: in every tick, the PreRender of each child engine gets the same Time
\* and FramesProcessed as the PreRender of its parent, also after the parent
\* has swapped environments at a time greater than zero.
C36_ChildrenShareCounters ==
  TickedRoot =>
    \A n \in DOMAIN sh.subTargets :
      /\ ChildPreRenderState(n).Time = lastState.Time
      /\ ChildPreRenderState(n).FramesProcessed = lastState.FramesProcessed

\* C37: in watch mode, after a build of the environment has failed, for
\* whatever reason, the source files are watched: a change of them while
\* watchEnvironment waits gives the watcher an event, which starts the next
\* build; and a build that succeeds is followed by SetEnvironment.
C37_WatchedAfterFailedBuild ==
  /\ [](watchPc = "failed" => watched = SourceFileNames)
  /\ [][(watchPc = "failed" /\ fileState' # fileState) => watchEvents']_vars
  /\ [][(watchBuilds' # watchBuilds /\ watchPc' # "failed")
          => (watchPc' = "published" /\ producer' # Idle)]_vars

\* C38: once Close of a peripheral has closed the channel closed, the reader
\* goroutine leaves its loop at its next check of the channel, having
\* processed no more than the line it was reading when the channel was
\* closed, and Close is not held up: while it waits, the goroutine has ended
\* or can go on by itself.
C38_PeripheralCloseReturns ==
  /\ [][(prClosed /\ readerPc = "select" /\ readerPc' # "select")
          => (readerPc' = "done" /\ loopClosed')]_vars
  /\ [](readAfterClose <= 1)
  /\ [](closePc = "waiting" => (loopClosed \/ PeriphReaderCanStep))

====
